---- MODULE Spec2Model ----
(***************************************************************************)
(* Screen-reader facade (Source/utils/screen_reader.cpp) and the Android   *)
(* JNI bridge (Source/utils/android_accessibility.cpp) as a state machine. *)
(*                                                                         *)
(* The facade's three functions are one action each.  An Android backend   *)
(* operation is a frame on the calling thread's stack that moves through   *)
(* the positions of its code: GetEnv / AttachCurrentThread, the test of    *)
(* its cached method handle, the steps of InitializeJNIMethods, the call   *)
(* of the managed method, DetachCurrentThread and the return.              *)
(***************************************************************************)
EXTENDS Integers, Sequences, FiniteSets, TLC

\* --------------------------------------------------------------- bounds
MaxAbsent == 1      \* managed classes / methods missing on the managed side
MaxDepth == 2       \* native frames a thread's stack holds before it overflows
MaxInitRuns == 2    \* the count of InitializeJNIMethods runs saturates here

\* --------------------------------------------------------------- inputs
Texts == {"", "a", "b"}
Threads == {"main", "worker"}
MainThread == "main"
Platforms == {"win32", "android", "linux"}

\* The five cached handles; an operation is named by the handle it uses.
Handles == {"isScreenReaderEnabled", "speak", "stop", "isReady", "handleGesture"}

AccessibilityManager == "org/diasurgical/devilutionx/AccessibilityManager"
AndroidTextToSpeech == "org/diasurgical/devilutionx/AndroidTextToSpeech"
GestureDetector == "org/diasurgical/devilutionx/GestureDetector"
Classes == {AccessibilityManager, AndroidTextToSpeech, GestureDetector}

\* The class each operation looks up again at the moment of the call.
ClassOf(h) ==
    CASE h = "isScreenReaderEnabled" -> AccessibilityManager
      [] h = "handleGesture" -> GestureDetector
      [] OTHER -> AndroidTextToSpeech

GESTURE_NONE == 0
GESTURE_DOUBLE_TAP == 3

\* The value an operation returns on its failure paths.
DefaultValue(h) ==
    CASE h \in {"isScreenReaderEnabled", "isReady"} -> FALSE
      [] h = "handleGesture" -> GESTURE_NONE
      [] OTHER -> "void"

VARIABLES
    platform,     \* the branch of the preprocessor the build selected
    SpokenText,   \* static std::string SpokenText of SpeakText
    Speechd,      \* SPDConnection *Speechd: "null", "open" or "released"
    tolkLoaded,   \* Tolk_Load() / Tolk_Unload()
    last,         \* observation: the latest SpeakText call
    prev,         \* observation: the SpeakText call before it
    forwarded,    \* observation: the texts handed to a backend so far
    g,            \* g_isScreenReaderEnabled .. g_handleGesture: TRUE = non-null
    absent,       \* environment: managed classes and methods that do not exist
    nativeBound,  \* environment: the managed methods are the natives of this file
    javaThread,   \* environment: thread created by the runtime (always attached)
    jvmAttached,  \* per thread: attached to the managed runtime now
    stack,        \* per thread: the frames of the backend operations it runs
    lastRet,      \* observation: per thread, the last return of an operation
    initRuns,     \* observation: executions of InitializeJNIMethods (saturating)
    invoked,      \* observation: some managed method has been invoked
    nullInvoke,   \* observation: a method was invoked through a null handle
    ttsActive,    \* the text-to-speech service has an active utterance
    crashed       \* "no", or why the process died

vars == <<platform, SpokenText, Speechd, tolkLoaded, last, prev, forwarded, g, absent, nativeBound,
          javaThread, jvmAttached, stack, lastRet, initRuns, invoked, nullInvoke,
          ttsActive, crashed>>

facadeVars == <<SpokenText, Speechd, tolkLoaded, last, prev, forwarded>>
envVars == <<platform, absent, nativeBound, javaThread>>

NoCall == [text |-> "", force |-> FALSE, suppressed |-> FALSE, backend |-> FALSE,
           conn |-> "none", convOK |-> TRUE, before |-> "", after |-> "",
           made |-> FALSE]

NoRet == [op |-> "none", val |-> "void", path |-> "none", entry |-> FALSE,
          exit |-> FALSE, lookupFailed |-> FALSE, invoked |-> FALSE]

\* ----------------------------------------------------------------- Init
InitCommon ==
    /\ SpokenText = ""
    /\ Speechd = "null"
    /\ tolkLoaded = FALSE
    /\ last = NoCall
    /\ prev = NoCall
    /\ forwarded = {}
    /\ g = [h \in Handles |-> FALSE]
    /\ stack = [t \in Threads |-> <<>>]
    /\ lastRet = [t \in Threads |-> NoRet]
    /\ initRuns = 0
    /\ invoked = FALSE
    /\ nullInvoke = FALSE
    /\ ttsActive = FALSE
    /\ crashed = "no"

AndroidEnv ==
    /\ absent \in {s \in SUBSET (Classes \cup Handles) : Cardinality(s) <= MaxAbsent}
    /\ nativeBound \in BOOLEAN
    /\ javaThread \in [Threads -> BOOLEAN]
    /\ jvmAttached = javaThread

Init ==
    /\ InitCommon
    /\ platform \in Platforms
    /\ IF platform = "android"
       THEN /\ AndroidEnv
            /\ javaThread["worker"] = FALSE
       ELSE /\ absent = {}
            /\ nativeBound = FALSE
            /\ javaThread = [t \in Threads |-> FALSE]
            /\ jvmAttached = javaThread

InitAndroid ==
    /\ InitCommon
    /\ platform = "android"
    /\ AndroidEnv
    /\ javaThread["worker"] = FALSE

\* The two threads are interchangeable: of the two mixed cases one is kept.
InitConc ==
    /\ InitCommon
    /\ platform = "android"
    /\ AndroidEnv
    /\ javaThread["worker"] => javaThread["main"]

\* ------------------------------------------------------- facade helpers
\* screen_reader.cpp:56  if (!force && SpokenText == text) return;
Suppressed_IgnoresForce(force, text, spoken) == spoken = text
Suppressed_Never(force, text, spoken) == FALSE
Suppressed(force, text, spoken) == ~force /\ spoken = text

\* The undefined behaviour of handing libspeechd a null or released
\* connection: the process dies in the library, or the call comes back.
UseConnection(conn) == IF conn = "open" THEN {"no"} ELSE {"no", "speechd"}

\* --------------------------------------------------------- JNI helpers
Top(t) == stack[t][Len(stack[t])]
Running(t, pc) == /\ crashed = "no"
                  /\ stack[t] # <<>>
                  /\ Top(t).pc = pc

SetTop(t, f) == [stack EXCEPT ![t] = [@ EXCEPT ![Len(@)] = f]]

NewFrame(t, h) == [op |-> h, pc |-> "getenv", attached |-> FALSE,
                   entry |-> jvmAttached[t], lookupFailed |-> FALSE,
                   invoked |-> FALSE, res |-> DefaultValue(h)]

\* env->FindClass(name): NULL when the class does not exist; on a thread
\* that is not the runtime's own the lookup goes through the system class
\* loader and may return NULL for an existing application class as well.
FindClass(t, name) ==
    IF name \in absent THEN {FALSE}
    ELSE IF javaThread[t] THEN {TRUE} ELSE BOOLEAN

\* env->GetStaticMethodID(cls, name, sig): NULL when the class has no such
\* static method.
GetStaticMethodID(name) == name \notin absent

\* if (attached) g_jvm->DetachCurrentThread();
DetachIfAttached_Always(isAttached, attachedHere) == FALSE
DetachIfAttached(isAttached, attachedHere) ==
    IF attachedHere THEN FALSE ELSE isAttached

\* if (!g_xxx) of the operation that uses handle h.
HandleMissing_FirstOnly(handles, h) == ~handles["isScreenReaderEnabled"]
HandleMissing(handles, h) == ~handles[h]

\* Pop the top frame of t with value val; the frame below, if any, is the
\* native export that called the operation and hands val to the call site.
Return(t, val, path, exitAttached) ==
    LET f == Top(t)
        rest == SubSeq(stack[t], 1, Len(stack[t]) - 1)
    IN /\ jvmAttached' = [jvmAttached EXCEPT ![t] = exitAttached]
       /\ lastRet' = [lastRet EXCEPT ![t] =
              [op |-> f.op, val |-> val, path |-> path, entry |-> f.entry,
               exit |-> exitAttached, lookupFailed |-> f.lookupFailed,
               invoked |-> f.invoked]]
       /\ stack' = [stack EXCEPT ![t] =
              IF rest = <<>> THEN rest
              ELSE [rest EXCEPT ![Len(rest)] =
                       [@ EXCEPT !.pc = "detach", !.res = val]]]

\* ------------------------------------------------------------- facade
\* void InitializeScreenReader()
InitializeScreenReader ==
    /\ crashed = "no"
    /\ stack[MainThread] = <<>>
    /\ tolkLoaded' = IF platform = "win32" THEN TRUE ELSE tolkLoaded
    /\ IF platform = "linux"
       THEN Speechd' \in {"open", "null"}      \* spd_open returns NULL on failure
       ELSE Speechd' = Speechd
    /\ UNCHANGED <<SpokenText, last, prev, forwarded, g, envVars, jvmAttached, stack, lastRet,
                   initRuns, invoked, nullInvoke, ttsActive, crashed>>

\* void ShutDownScreenReader()
ShutDownScreenReader ==
    /\ crashed = "no"
    /\ stack[MainThread] = <<>>
    /\ tolkLoaded' = IF platform = "win32" THEN FALSE ELSE tolkLoaded
    /\ IF platform = "linux"
       THEN /\ Speechd' = IF Speechd = "open" THEN "released" ELSE Speechd
            /\ crashed' \in UseConnection(Speechd)
       ELSE UNCHANGED <<Speechd, crashed>>
    /\ UNCHANGED <<SpokenText, last, prev, forwarded, g, envVars, jvmAttached, stack, lastRet,
                   initRuns, invoked, nullInvoke, ttsActive>>

CallRecord(text, force, suppressed, backend, conn, convOK, after) ==
    [text |-> text, force |-> force, suppressed |-> suppressed,
     backend |-> backend, conn |-> conn, convOK |-> convOK,
     before |-> SpokenText, after |-> after, made |-> TRUE]

Observe(call) ==
    /\ last' = call
    /\ prev' = last
    /\ forwarded' = IF call.backend THEN forwarded \cup {call.text} ELSE forwarded

\* void SpeakText(std::string_view text, bool force)
SpeakText(text, force) ==
    /\ crashed = "no"
    /\ stack[MainThread] = <<>>
    /\ IF Suppressed(force, text, SpokenText)
       THEN /\ Observe(CallRecord(text, force, TRUE, FALSE, "none", TRUE, SpokenText))
            /\ UNCHANGED <<SpokenText, stack, lastRet, crashed>>
       ELSE /\ SpokenText' = text
            /\ IF platform = "win32"
               THEN \* ToWideChar(SpokenText) may yield nullptr: no Tolk_Output
                    /\ \E conv \in BOOLEAN :
                          Observe(CallRecord(text, force, FALSE, conv, "none",
                                             conv, text))
                    /\ UNCHANGED <<stack, lastRet, crashed>>
               ELSE IF platform = "android"
               THEN \* SpeakAndroidText(SpokenText, force)
                    /\ Observe(CallRecord(text, force, FALSE, TRUE, "none", TRUE, text))
                    /\ stack' = [stack EXCEPT ![MainThread] =
                                    <<NewFrame(MainThread, "speak")>>]
                    /\ lastRet' = [lastRet EXCEPT ![MainThread] = NoRet]
                    /\ UNCHANGED crashed
               ELSE \* spd_say(Speechd, SPD_TEXT, SpokenText.c_str())
                    /\ Observe(CallRecord(text, force, FALSE, TRUE, Speechd, TRUE, text))
                    /\ crashed' \in UseConnection(Speechd)
                    /\ UNCHANGED <<stack, lastRet>>
    /\ UNCHANGED <<Speechd, tolkLoaded, g, envVars, jvmAttached,
                   initRuns, invoked, nullInvoke, ttsActive>>

\* ----------------------------------------------- Android backend entry
Enter(t, h) ==
    /\ crashed = "no"
    /\ platform = "android"
    /\ stack[t] = <<>>
    /\ stack' = [stack EXCEPT ![t] = <<NewFrame(t, h)>>]
    /\ lastRet' = [lastRet EXCEPT ![t] = NoRet]
    /\ UNCHANGED <<facadeVars, g, envVars, jvmAttached, initRuns,
                   invoked, nullInvoke, ttsActive, crashed>>

IsAndroidAccessibilityEnabled(t) == Enter(t, "isScreenReaderEnabled")
SpeakAndroidText(t) == Enter(t, "speak")
StopAndroidSpeech(t) == Enter(t, "stop")
IsAndroidTTSReady(t) == Enter(t, "isReady")
HandleAndroidGesture(t) == Enter(t, "handleGesture")

\* g_jvm->GetEnv(...) != JNI_OK  =>  g_jvm->AttachCurrentThread(...)
GetEnv(t) ==
    /\ Running(t, "getenv")
    /\ IF jvmAttached[t]
       THEN /\ stack' = SetTop(t, [Top(t) EXCEPT !.pc = "chk"])
            /\ UNCHANGED <<jvmAttached, lastRet>>
       ELSE \E ok \in BOOLEAN :
              IF ok
              THEN /\ jvmAttached' = [jvmAttached EXCEPT ![t] = TRUE]
                   /\ stack' = SetTop(t, [Top(t) EXCEPT !.pc = "chk",
                                                        !.attached = TRUE])
                   /\ UNCHANGED lastRet
              ELSE Return(t, DefaultValue(Top(t).op), "attachfail", jvmAttached[t])
    /\ UNCHANGED <<facadeVars, g, envVars, initRuns, invoked, nullInvoke,
                   ttsActive, crashed>>

\* if (!g_xxx) { if (!InitializeJNIMethods(env)) ... }
CheckHandle(t) ==
    /\ Running(t, "chk")
    /\ IF HandleMissing(g, Top(t).op)
       THEN /\ stack' = SetTop(t, [Top(t) EXCEPT !.pc = "fc1"])
            /\ initRuns' = IF initRuns < MaxInitRuns THEN initRuns + 1 ELSE initRuns
       ELSE /\ stack' = SetTop(t, [Top(t) EXCEPT !.pc = "call"])
            /\ UNCHANGED initRuns
    /\ UNCHANGED <<facadeVars, g, envVars, jvmAttached, lastRet, invoked,
                   nullInvoke, ttsActive, crashed>>

\* ------------------------------------------------ InitializeJNIMethods
InitFindClass(t, pc, cls, next) ==
    /\ Running(t, pc)
    /\ \E found \in FindClass(t, cls) :
          stack' = SetTop(t, IF found THEN [Top(t) EXCEPT !.pc = next]
                             ELSE [Top(t) EXCEPT !.pc = "initfail",
                                                 !.lookupFailed = TRUE])
    /\ UNCHANGED <<facadeVars, g, envVars, jvmAttached, lastRet, initRuns,
                   invoked, nullInvoke, ttsActive, crashed>>

\* g_h = env->GetStaticMethodID(...), followed at once by if (!g_h) when
\* checked is TRUE.
InitGetMethod(t, pc, h, next, checked) ==
    /\ Running(t, pc)
    /\ g' = [g EXCEPT ![h] = GetStaticMethodID(h)]
    /\ stack' = SetTop(t, IF checked /\ ~GetStaticMethodID(h)
                          THEN [Top(t) EXCEPT !.pc = "initfail",
                                              !.lookupFailed = TRUE]
                          ELSE [Top(t) EXCEPT !.pc = next])
    /\ UNCHANGED <<facadeVars, envVars, jvmAttached, lastRet, initRuns,
                   invoked, nullInvoke, ttsActive, crashed>>

FindAccessibilityManagerClass(t) == InitFindClass(t, "fc1", AccessibilityManager, "m1")
GetIsScreenReaderEnabledID(t) == InitGetMethod(t, "m1", "isScreenReaderEnabled", "fc2", TRUE)
FindTtsClass(t) == InitFindClass(t, "fc2", AndroidTextToSpeech, "m2")
GetSpeakID(t) == InitGetMethod(t, "m2", "speak", "m3", FALSE)
GetStopID(t) == InitGetMethod(t, "m3", "stop", "m4", FALSE)
GetIsReadyID(t) == InitGetMethod(t, "m4", "isReady", "chk3", FALSE)

\* if (!g_speak || !g_stop || !g_isReady) return false;
CheckTtsIDs(t) ==
    /\ Running(t, "chk3")
    /\ stack' = SetTop(t, IF g["speak"] /\ g["stop"] /\ g["isReady"]
                          THEN [Top(t) EXCEPT !.pc = "fc3"]
                          ELSE [Top(t) EXCEPT !.pc = "initfail",
                                              !.lookupFailed = TRUE])
    /\ UNCHANGED <<facadeVars, g, envVars, jvmAttached, lastRet, initRuns,
                   invoked, nullInvoke, ttsActive, crashed>>

FindGestureClass(t) == InitFindClass(t, "fc3", GestureDetector, "m5")
GetHandleGestureID(t) == InitGetMethod(t, "m5", "handleGesture", "call", TRUE)

\* InitializeJNIMethods returned false:
\* if (attached) g_jvm->DetachCurrentThread(); return <default>;
InitFailed(t) ==
    /\ Running(t, "initfail")
    /\ Return(t, DefaultValue(Top(t).op), "initfail",
              DetachIfAttached(jvmAttached[t], Top(t).attached))
    /\ UNCHANGED <<facadeVars, g, envVars, initRuns, invoked, nullInvoke,
                   ttsActive, crashed>>

\* ------------------------------------------------- the managed method
\* What the managed implementation of h answers when it is not a native
\* of this file; the native isScreenReaderEnabled answers JNI_FALSE.
ManagedResults(h) ==
    CASE h = "isScreenReaderEnabled" -> IF nativeBound THEN {FALSE} ELSE BOOLEAN
      [] h = "isReady" -> BOOLEAN
      [] h = "handleGesture" -> GESTURE_NONE .. GESTURE_DOUBLE_TAP
      [] OTHER -> {"void"}

\* The managed method h is the native Java_..._h of this file, which calls
\* the backend operation again.
ReEnters(h) == nativeBound /\ h # "isScreenReaderEnabled"

\* Calling through a NULL jclass is undefined: the runtime aborts, or it
\* ignores the class and dispatches on the method handle.
CallOutcomes(found) == IF found THEN {"call"} ELSE {"call", "abort"}

\* env->CallStatic<T>Method(env->FindClass(<class>), g_h, ...)
Invoke(t) ==
    /\ Running(t, "call")
    /\ LET f == Top(t)
           h == f.op
       IN \E found \in FindClass(t, ClassOf(h)) :
          \E outcome \in CallOutcomes(found) :
          LET f1 == [f EXCEPT !.lookupFailed = f.lookupFailed \/ ~found]
              f2 == [f1 EXCEPT !.invoked = TRUE]
          IN IF outcome = "abort"
             THEN /\ crashed' = "nullclass"
                  /\ stack' = SetTop(t, f1)
                  /\ UNCHANGED <<invoked, nullInvoke, ttsActive>>
             ELSE /\ invoked' = TRUE
                  /\ nullInvoke' = (nullInvoke \/ ~g[h])
                  /\ IF ReEnters(h)
                     THEN IF Len(stack[t]) < MaxDepth
                          THEN /\ stack' = [stack EXCEPT ![t] =
                                      Append(SubSeq(@, 1, Len(@) - 1),
                                             [f2 EXCEPT !.pc = "wait"])
                                      \o <<NewFrame(t, h)>>]
                               /\ UNCHANGED <<ttsActive, crashed>>
                          ELSE /\ crashed' = "stackoverflow"
                               /\ stack' = SetTop(t, f2)
                               /\ UNCHANGED ttsActive
                     ELSE /\ \E r \in ManagedResults(h) :
                                stack' = SetTop(t, [f2 EXCEPT !.pc = "detach",
                                                              !.res = r])
                          /\ ttsActive' = IF h = "speak" THEN TRUE
                                          ELSE IF h = "stop" THEN FALSE
                                          ELSE ttsActive
                          /\ UNCHANGED crashed
    /\ UNCHANGED <<facadeVars, g, envVars, jvmAttached, lastRet, initRuns>>

\* if (attached) g_jvm->DetachCurrentThread(); return result;
Finish(t) ==
    /\ Running(t, "detach")
    /\ Return(t, Top(t).res, "normal",
              DetachIfAttached(jvmAttached[t], Top(t).attached))
    /\ UNCHANGED <<facadeVars, g, envVars, initRuns, invoked, nullInvoke,
                   ttsActive, crashed>>

\* ------------------------------------------------------ specifications
\* A direct call of one of the five backend operations on thread t.
Call(t) ==
    \/ IsAndroidAccessibilityEnabled(t)
    \/ SpeakAndroidText(t)
    \/ StopAndroidSpeech(t)
    \/ IsAndroidTTSReady(t)
    \/ HandleAndroidGesture(t)

\* The next step of the backend operation thread t is running.
Step(t) ==
    \/ GetEnv(t)
    \/ CheckHandle(t)
    \/ FindAccessibilityManagerClass(t)
    \/ GetIsScreenReaderEnabledID(t)
    \/ FindTtsClass(t)
    \/ GetSpeakID(t)
    \/ GetStopID(t)
    \/ GetIsReadyID(t)
    \/ CheckTtsIDs(t)
    \/ FindGestureClass(t)
    \/ GetHandleGestureID(t)
    \/ InitFailed(t)
    \/ Invoke(t)
    \/ Finish(t)

\* The facade on any of the three builds, driven by the engine's main
\* thread; on Android SpeakText runs SpeakAndroidText to its return.
Next ==
    \/ InitializeScreenReader
    \/ ShutDownScreenReader
    \/ \E text \in Texts, force \in BOOLEAN : SpeakText(text, force)
    \/ Step(MainThread)

Spec == Init /\ [][Next]_vars

\* The Android backend called operation after operation by one thread.
NextAndroid == Call(MainThread) \/ Step(MainThread)

SpecAndroid == InitAndroid /\ [][NextAndroid]_vars

\* Two threads run backend operations in any interleaving of their steps.
NextConc == \E t \in Threads : Call(t) \/ Step(t)

SpecConc == InitConc /\ [][NextConc]_vars

\* ------------------------------------------------------------ claims
InitPcs == {"fc1", "m1", "fc2", "m2", "m3", "m4", "chk3", "fc3", "m5"}
Returned(t) == lastRet[t].op # "none"
StopFrames(t) == {i \in DOMAIN stack[t] : stack[t][i].op = "stop"}

\* The latest and the previous SpeakText call carry the same text.
Repeats == prev.made /\ last.made /\ prev.text = last.text

\* C1 as stated: a SpeakText(t, force=false) whose text equals the text of
\* the call before it does not invoke the backend and leaves the remembered
\* text unchanged, and two consecutive calls with the same text and
\* force=false invoke the backend exactly once.
C1_ExactlyOnce ==
    /\ (Repeats /\ ~last.force) =>
           /\ ~last.backend
           /\ last.after = last.before
           /\ SpokenText = last.before
    /\ (Repeats /\ ~last.force /\ ~prev.force) =>
           (prev.backend # last.backend)

\* C1, amended: a SpeakText(t, force=false) whose text equals the text of
\* the call before it does not invoke the backend and leaves the remembered
\* text unchanged, so two consecutive calls with the same text and
\* force=false invoke the backend at most once.
C1_DuplicateSuppressed ==
    /\ (Repeats /\ ~last.force) =>
           /\ last.suppressed
           /\ ~last.backend
           /\ last.after = last.before
           /\ SpokenText = last.before
    /\ (Repeats /\ ~last.force /\ ~prev.force) =>
           ~(prev.backend /\ last.backend)

C1_Witness ==
    /\ Repeats
    /\ ~prev.force /\ ~last.force
    /\ prev.backend
    /\ last.suppressed

\* C2 as stated: every SpeakText(t, force=true) invokes the platform
\* backend's speak operation, whatever the remembered text was, and sets
\* the remembered text to t.
C2_ForcedAlwaysInvokes ==
    (last.made /\ last.force) =>
        /\ last.backend
        /\ SpokenText = last.text

\* C2, amended: every SpeakText(t, force=true) passes the duplicate test
\* whatever the remembered text was, sets the remembered text to t, and
\* invokes the platform backend's speak operation, except on the Windows
\* build when the conversion of t to UTF-16 yields no buffer.
C2_ForcedBypassesDedup ==
    (last.made /\ last.force) =>
        /\ ~last.suppressed
        /\ last.after = last.text
        /\ SpokenText = last.text
        /\ last.backend = (platform # "win32" \/ last.convOK)

C2_Witness ==
    /\ Repeats
    /\ last.force
    /\ last.before = last.text
    /\ prev.backend
    /\ last.backend

\* C3: on every return of an Android backend operation (attach failure,
\* handle-resolution failure, normal return) the calling thread's
\* attachment to the managed runtime equals its attachment on entry: an
\* already attached thread is not detached, a thread the call attached is
\* detached again.
C3_AttachBalance ==
    \A t \in Threads :
        /\ Returned(t) => lastRet[t].exit = lastRet[t].entry
        /\ stack[t] = <<>> => jvmAttached[t] = javaThread[t]

C3_Witness ==
    /\ Returned(MainThread)
    /\ lastRet[MainThread].path = "normal"
    /\ lastRet[MainThread].entry
    /\ jvmAttached[MainThread]
    /\ stack[MainThread] = <<>>

\* C4: in an Android backend operation during which the thread attach
\* fails or a managed class or method lookup fails (during handle
\* resolution or at the moment of the call) no managed method is invoked
\* and the operation returns its default value.
C4_FailureYieldsDefault ==
    /\ crashed # "nullclass"
    /\ \A t \in Threads :
          /\ \A i \in DOMAIN stack[t] :
                ~(stack[t][i].lookupFailed /\ stack[t][i].invoked)
          /\ (Returned(t) /\ (lastRet[t].path = "attachfail" \/ lastRet[t].lookupFailed)) =>
                /\ ~lastRet[t].invoked
                /\ lastRet[t].val = DefaultValue(lastRet[t].op)

\* C5: if one of the managed classes or methods cannot be resolved, no
\* Android backend operation ever invokes a managed method and every call
\* returns the operation's default result.
C5_FailedInitDisablesBackend ==
    absent # {} =>
        /\ ~invoked
        /\ \A t \in Threads :
              Returned(t) => lastRet[t].val = DefaultValue(lastRet[t].op)

\* C6: across any sequence of Android backend operations
\* InitializeJNIMethods is executed at most one time.
C6_ResolvedOnce == initRuns <= 1

\* C7: with AndroidTextToSpeech.stop implemented by the native
\* Java_..._stop of this file, a call of StopAndroidSpeech enters
\* StopAndroidSpeech once, does not exhaust the stack, and returns with no
\* active utterance.
C7_StopTerminates ==
    nativeBound =>
        \A t \in Threads :
            /\ Cardinality(StopFrames(t)) <= 1
            /\ ~(crashed = "stackoverflow" /\ stack[t] # <<>> /\ Top(t).op = "stop")
            /\ (Returned(t) /\ lastRet[t].op = "stop" /\ lastRet[t].path = "normal")
                   => ~ttsActive

\* C8: on the Linux build SpeakText hands spd_say a connection only while
\* that connection is open; never an unopened or released one.
C8_SayOnlyWhileOpen ==
    (platform = "linux" /\ last.made /\ last.backend) => last.conn = "open"

\* C10: a SpeakText call is suppressed only if an earlier SpeakText call
\* forwarded the same text to the backend; the first call of the process is
\* never suppressed.
C10_SuppressedOnlyIfForwarded ==
    /\ last.suppressed => last.text \in forwarded
    /\ (last.made /\ ~prev.made) => ~last.suppressed

\* C9: with two threads running backend operations in any interleaving, no
\* managed method is invoked through a null method handle, and each
\* thread's attachment on return from its operation equals its attachment
\* on entry.
C9_ConcurrentSafe ==
    /\ ~nullInvoke
    /\ \A t \in Threads :
          /\ Returned(t) => lastRet[t].exit = lastRet[t].entry
          /\ stack[t] = <<>> => jvmAttached[t] = javaThread[t]
          /\ \A i \in DOMAIN stack[t] :
                stack[t][i].pc \in {"wait", "detach"} => g[stack[t][i].op]

\* Both threads are inside InitializeJNIMethods at once, one of them a
\* thread the operation attached, the other attached already.
C9_Witness ==
    /\ \A t \in Threads : stack[t] # <<>> /\ Top(t).pc \in InitPcs
    /\ Top("main").attached # Top("worker").attached
    /\ jvmAttached["main"] /\ jvmAttached["worker"]

====
